---- MODULE Spec2Model ----
(***************************************************************************)
(* Model of amocrm-events-monitor: the events processor (filter, count,    *)
(* top-N), the paginated event fetch with its retrying HTTP GET, and the   *)
(* SQLite latency store.                                                   *)
(*                                                                         *)
(* Optional Python values (None / absent dict key) are modelled as         *)
(* sequences of length 0 or 1: <<>> is None, <<x>> is the value x.         *)
(***************************************************************************)
EXTENDS Integers, Sequences, FiniteSets, TLC

VARIABLES
    \* ---- events processor (app/events_processor.py)
    events,            \* the list handed to the processor
    events_in,         \* the list as the caller built it (before any call)
    user_ids,          \* the list of account user ids
    top_limit_arg,     \* the constructor argument top_limit (None or an int)
    limit_arg,         \* the limit argument of the last get_top_events call
    proc_pc,           \* which processor method ran last
    automated_events,  \* result of filter_automated_events
    type_counts,       \* result of count_event_types (dict, insertion ordered)
    top_events,        \* result of get_top_events
    processed,         \* result of process_events
    \* ---- paginated fetch (app/amocrm_client.py, app/http_client.py)
    srv,               \* the vendor's event collection: one entry per page
    tail,              \* what the vendor serves past the listed pages
    fe_pc,             \* where get_events stands
    page,              \* get_events' local `page`
    all_events,        \* get_events' local `all_events`
    calls,             \* the page of every client.get() call made, in order
    attempt_number,    \* the retry wrapper's attempt number in the current get()
    attempts,          \* outcome of every transport invocation of the current get()
    waits,             \* the wait inserted after each failed attempt of the current get()
    requests,          \* number of transport invocations made by this get_events
    failed,            \* how many of them ended in an exception
    response,          \* what the last get() returned (None before)
    result,            \* what get_events returned (None if nothing was returned)
    raised,            \* the exception get_events raised (None if none)
    \* ---- latency store (app/latency_checker.py)
    schema,            \* the tables and indexes the database file holds
    rows,              \* the latency table, in rowid order
    last_op,           \* the last store operation: its arguments and result
    prev_op,           \* the store operation before it
    \* ---- report assembly (app/main_daily_report.py)
    report_date,       \* prepare_report_data's argument report_date (a day)
    rp_top_events,     \* its argument top_events: (type, count) pairs
    max_latency,       \* its argument max_latency: (timestamp, latency_ms) or None
    report_rows,       \* what it returned
    rp_pc,             \* "ready" before the call, "done" after it
    ft_in,             \* format_time's argument timestamp_str
    ft_pc,             \* "ready" before the call of format_time, "done" after it
    ft_failed,         \* whether a statement inside format_time raised
    ft_out,            \* what format_time returned (None if it did not return)
    ft_raised,         \* whether format_time raised to its caller
    \* ---- worksheet initialisation (app/sheets_writer.py)
    client,            \* SheetsWriter._client (None before authorisation)
    worksheet,         \* SheetsWriter._worksheet (None before the first open)
    init_lock,         \* the thread holding _init_lock, 0 when it is free
    sh_pc,             \* per thread: where it stands in _get_worksheet
    sh_calls,          \* per thread: the calls of _get_worksheet it has begun
    got,               \* per thread: what its last finished call returned
    authorized,        \* gspread.authorize calls that returned
    opened,            \* open_by_key(...).sheet1 evaluations that returned
    init_failed,       \* authorize/open calls that raised
    \* ---- the scheduled entry points (app/main_daily_report.py, main_ping_probe.py)
    tenant_users,      \* the tenant's GET /users collection: one id list per page
    tenant_events,     \* the events the tenant serves for a report date
    first_row,         \* row 1 of the worksheet
    sheet_rows,        \* the rows appended to the worksheet, in order
    run_no,            \* scheduled daily invocations started so far
    d_pc,              \* where the daily main stands
    d_report_date,     \* main's local report_date (the day before the run)
    d_user_ids,        \* main's local user_ids
    d_events,          \* main's local events
    d_top_events,      \* main's local top_events
    d_max_latency,     \* main's local max_latency
    d_report_rows,     \* main's local report_rows
    d_steps,           \* the steps this run has executed, the failing one included
    d_failed,          \* the step of this run that raised (None if none)
    exit_status,       \* the exit status of this run's process (None while running)
    run_writes,        \* the spreadsheet writes this run has performed
    prev_run,          \* the previous invocation: its report date, whether it appended
    probe_raised,      \* whether the last probe's measure_and_save raised
    probe_exit,        \* the exit status of the last probe process
    d_selected,        \* history: how many rows this run's SELECT of
                       \* get_max_latency_for_date matched
    d_late             \* history: how many samples of the report date a probe saved after
                       \* this run's SELECT of get_max_latency_for_date

procVars == <<events, events_in, user_ids, top_limit_arg, limit_arg, proc_pc,
              automated_events, type_counts, top_events, processed>>

fetchVars == <<srv, tail, fe_pc, page, all_events, calls, attempt_number, attempts, waits,
               requests, failed, response, result, raised>>

storeVars == <<schema, rows, last_op, prev_op>>

reportVars == <<report_date, rp_top_events, max_latency, report_rows, rp_pc,
                ft_in, ft_pc, ft_failed, ft_out, ft_raised>>

sheetsVars == <<client, worksheet, init_lock, sh_pc, sh_calls, got,
                authorized, opened, init_failed>>

dailyVars == <<tenant_users, tenant_events, first_row, sheet_rows, run_no, d_pc,
               d_report_date, d_user_ids, d_events, d_top_events, d_max_latency,
               d_report_rows, d_steps, d_failed, exit_status, run_writes,
               prev_run, probe_raised, probe_exit, d_selected, d_late>>

vars == <<procVars, fetchVars, storeVars, reportVars, sheetsVars, dailyVars>>

\* what the operations of one component leave alone
notProc == <<fetchVars, storeVars, reportVars, sheetsVars, dailyVars>>
notFetch == <<procVars, storeVars, reportVars, sheetsVars, dailyVars>>
notStore == <<procVars, fetchVars, reportVars, sheetsVars, dailyVars>>
notReport == <<procVars, fetchVars, storeVars, sheetsVars, dailyVars>>
notSheets == <<procVars, fetchVars, storeVars, reportVars, dailyVars>>
\* the entry points use the latency table; the rest is left alone
notDaily == <<procVars, fetchVars, reportVars, sheetsVars, last_op, prev_op>>

----------------------------------------------------------------------------
(* Bounds of the model *)

MaxEvents == 3
MaxPages == 3
MaxRows == 3
MaxTop == 3
NThreads == 2
MaxCalls == 2
MaxInitFailures == 1
MaxRuns == 2
MaxSamples == 2

(* Values the inputs are drawn from *)

None == <<>>
Some(x) == <<x>>

CreatedByValues == {None, Some(1), Some(2)}
TypeValues == {None, Some("lead_added"), Some("task_added")}
UserIdLists == {<<>>, <<1>>, <<2, 1>>}
TopLimitArgs == {None, Some(2)}
LimitArgs == {None, Some(0), Some(1), Some(2), Some(4)}

\* an event dict: the opaque vendor field id (its position in the list) plus
\* the two keys the processor reads
EventAt(i, c, t) == [id |-> i, created_by |-> c, type |-> t]

EventLists ==
    UNION { { [i \in 1..n |-> EventAt(i, cs[i], ts[i])] :
                cs \in [1..n -> CreatedByValues], ts \in [1..n -> TypeValues] } :
            n \in 0..MaxEvents }

Min(a, b) == IF a <= b THEN a ELSE b

----------------------------------------------------------------------------
(* settings.TOP_EVENTS_LIMIT default *)
TOP_EVENTS_LIMIT == 5

\* Python truthiness of an optional int: None and 0 are falsy
Falsy(x) == x = None \/ x[1] = 0

\* EventsProcessor.__init__: self.top_limit = top_limit or settings.TOP_EVENTS_LIMIT
top_limit_of(arg) == IF Falsy(arg) THEN TOP_EVENTS_LIMIT ELSE arg[1]

\* `created_by is None or created_by not in user_ids`
IsKept(event, ids) ==
    \/ event.created_by = None
    \/ ~ \E j \in 1..Len(ids) : ids[j] = event.created_by[1]

RECURSIVE FilterLoop(_, _, _, _)
FilterLoop(evs, ids, i, acc) ==
    IF i > Len(evs) THEN acc
    ELSE FilterLoop(evs, ids, i + 1,
                    IF IsKept(evs[i], ids) THEN Append(acc, evs[i]) ELSE acc)

\* a slip that forgets the `is None` test: events without an actor are dropped
filter_automated_events_NoNoneTest(evs, ids) ==
    SelectSeq(evs, LAMBDA e : e.created_by # None /\ IsKept(e, ids))

\* EventsProcessor.filter_automated_events
filter_automated_events(evs, ids) == FilterLoop(evs, ids, 1, <<>>)

\* event.get("type", "unknown")
TypeOf(event) == IF event.type = None THEN "unknown" ELSE event.type[1]

\* Counter.update for one element: increment the key's count, or insert the key
\* at the end of the dict with count 1
CounterAdd(counts, t) ==
    IF \E j \in 1..Len(counts) : counts[j][1] = t
    THEN [j \in 1..Len(counts) |->
            IF counts[j][1] = t THEN <<t, counts[j][2] + 1>> ELSE counts[j]]
    ELSE Append(counts, <<t, 1>>)

RECURSIVE CountLoop(_, _, _)
CountLoop(evs, i, acc) ==
    IF i > Len(evs) THEN acc
    ELSE CountLoop(evs, i + 1, CounterAdd(acc, TypeOf(evs[i])))

\* a slip that skips the events without a type instead of labelling them
count_event_types_SkipUntyped(evs) ==
    CountLoop(SelectSeq(evs, LAMBDA e : e.type # None), 1, <<>>)

\* EventsProcessor.count_event_types: dict(Counter(event_types)), as the
\* sequence of its (key, value) items in insertion order
count_event_types(evs) == CountLoop(evs, 1, <<>>)

\* a sort that is not stable: an item goes before the items of equal count
InsertDesc_Unstable(sorted, item) ==
    LET before == Cardinality({j \in 1..Len(sorted) : sorted[j][2] > item[2]})
    IN  SubSeq(sorted, 1, before) \o <<item>> \o SubSeq(sorted, before + 1, Len(sorted))

\* sorted(items, key=count, reverse=True): stable, so an item goes after every
\* item whose count is greater or equal
InsertDesc(sorted, item) ==
    LET before == Cardinality({j \in 1..Len(sorted) : sorted[j][2] >= item[2]})
    IN  SubSeq(sorted, 1, before) \o <<item>> \o SubSeq(sorted, before + 1, Len(sorted))

RECURSIVE SortedDescLoop(_, _, _)
SortedDescLoop(items, i, acc) ==
    IF i > Len(items) THEN acc
    ELSE SortedDescLoop(items, i + 1, InsertDesc(acc, items[i]))

SortedDesc(items) == SortedDescLoop(items, 1, <<>>)

\* s[:n] for n >= 0
Prefix(s, n) == SubSeq(s, 1, Min(n, Len(s)))

\* a slip that sorts ascending (reverse=True forgotten)
get_top_events_Ascending(counts, limit, top_limit) ==
    LET n == IF Falsy(limit) THEN top_limit ELSE limit[1]
        desc == SortedDesc(counts)
    IN  Prefix([j \in 1..Len(desc) |-> desc[Len(desc) + 1 - j]], n)

\* EventsProcessor.get_top_events; top_limit is self.top_limit
get_top_events(counts, limit, top_limit) ==
    LET n == IF Falsy(limit) THEN top_limit ELSE limit[1]
    IN  Prefix(SortedDesc(counts), n)

\* a processor that counts every event, human-made ones included
process_events_NoFilter(evs, ids, top_limit) ==
    IF evs = <<>> THEN <<>>
    ELSE get_top_events(count_event_types(evs), None, top_limit)

\* EventsProcessor.process_events
process_events(evs, ids, top_limit) ==
    LET automated == filter_automated_events(evs, ids)
        counts == count_event_types(automated)
    IN  IF automated = <<>> THEN <<>>
        ELSE IF counts = <<>> THEN <<>>
        ELSE get_top_events(counts, None, top_limit)

----------------------------------------------------------------------------
(* The HTTP GET with its retry wrapper (app/http_client.py) *)

\* What one invocation of the transport (self._client.get) can produce: a 200
\* response with a JSON body, a response with an error status, a network-level
\* error, or a 200 response whose body is not JSON.
StatusValues == {404, 429, 503}
TransportOutcomes ==
    {[kind |-> "ok", status |-> 200], [kind |-> "network", status |-> 0],
     [kind |-> "notjson", status |-> 200]}
    \cup {[kind |-> "status", status |-> st] : st \in StatusValues}

\* the statuses get() logs as temporary before raising
TransientStatuses == {429, 500, 502, 503, 504}

\* The exception one attempt of get() ends with: response.raise_for_status()
\* raises HTTPStatusError for every error status (the branch for the statuses
\* logged as temporary raises the same exception as the call after it), the
\* transport raises RequestError, response.json() raises ValueError on a body
\* that is not JSON.
AttemptError(o) ==
    IF o.kind = "status" THEN [kind |-> "HTTPStatusError", status |-> o.status]
    ELSE IF o.kind = "network" THEN [kind |-> "RequestError", status |-> 0]
    ELSE [kind |-> "ValueError", status |-> 0]

\* retry=retry_if_exception_type((httpx.HTTPStatusError, httpx.RequestError))
retry_if_exception_type(e) == e.kind \in {"HTTPStatusError", "RequestError"}

MAX_ATTEMPTS == 3

\* an off-by-one stop condition: a fourth attempt is made
stop_after_attempt_OffByOne(n) == n > MAX_ATTEMPTS

\* stop=stop_after_attempt(3)
stop_after_attempt(n) == n >= MAX_ATTEMPTS

WAIT_MULTIPLIER == 1
WAIT_MIN == 2
WAIT_MAX == 10

\* wait=wait_exponential(multiplier=1, min=2, max=10), as tenacity computes it
\* for the attempt that has just failed:
\* max(max(0, min), min(multiplier * 2 ** (attempt_number - 1), max))
wait_exponential(n) ==
    LET exp == WAIT_MULTIPLIER * (2 ^ (n - 1))
        capped == IF exp <= WAIT_MAX THEN exp ELSE WAIT_MAX
    IN  IF capped >= WAIT_MIN THEN capped ELSE WAIT_MIN

\* one retry budget for the whole fetch: the next get() goes on counting where
\* the previous one stopped
new_call_attempt_Carried(previous) == previous

\* every call of the decorated get() starts its own retry state: attempt 1
new_call_attempt(previous) == 1

\* reraise left at its default: the caller gets a RetryError wrapper when the
\* attempts are used up
reraise_Wrapped(e, n) ==
    IF retry_if_exception_type(e) /\ n >= MAX_ATTEMPTS
    THEN [kind |-> "RetryError", status |-> 0] ELSE e

\* reraise=True: the exception of the last attempt is raised as it is
reraise(e, n) == e

----------------------------------------------------------------------------
(* The paginated fetch (AmoCRMClient.get_events) *)

\* the events of page k as the vendor serves them: event ids <<k, 1>>, <<k, 2>>, ...
PageEvents(k) ==
    IF k \in 1..Len(srv) THEN [i \in 1..srv[k].n |-> <<k, i>>]
    ELSE IF tail = "endless" THEN [i \in 1..2 |-> <<k, i>>]
    ELSE <<>>

\* the JSON body served for page k
PageBody(k) ==
    [events |-> PageEvents(k),
     next |-> IF k \in 1..Len(srv) THEN srv[k].next ELSE tail = "endless"]

Servers ==
    UNION { [1..n -> [n : {0, 2}, next : BOOLEAN]] : n \in 0..MaxPages }

\* past the listed pages the vendor serves empty pages, or (a vendor fault)
\* non-empty pages with a next link without end
TailValues == {"empty", "endless"}

\* a loop that gives up after MaxPages pages
has_next_Capped(body, p) == body.next /\ p < MaxPages

\* the test `"next" in links`; the page number plays no part in it
has_next(body, p) == body.next

\* `page += 1` replaced by a step of two
NextPage_Skip(p) == p + 2

\* page += 1
NextPage(p) == p + 1

\* the except branch returning what was collected so far instead of raising
ResultOnError_Partial(acc) == Some(acc)

\* except Exception: log and raise -- nothing is returned
ResultOnError(acc) == None

FetchInit ==
    /\ srv \in Servers
    /\ tail \in TailValues
    /\ fe_pc = "start"
    /\ page = 0
    /\ all_events = <<>>
    /\ calls = <<>>
    /\ attempt_number = 0
    /\ attempts = <<>>
    /\ waits = <<>>
    /\ requests = 0
    /\ failed = 0
    /\ response = None
    /\ result = None
    /\ raised = None

\* get_events up to its first `await client.get(...)`
GetEventsStart ==
    /\ fe_pc = "start"
    /\ all_events' = <<>>
    /\ page' = 1
    /\ calls' = <<1>>
    /\ attempt_number' = new_call_attempt(attempt_number)
    /\ attempts' = <<>>
    /\ waits' = <<>>
    /\ fe_pc' = "get"
    /\ UNCHANGED <<srv, tail, requests, failed, response, result, raised>>
    /\ UNCHANGED notFetch

\* one attempt of get() that succeeds: get() returns the JSON body
AttemptOk ==
    /\ fe_pc = "get"
    /\ attempts' = Append(attempts, [kind |-> "ok", status |-> 200])
    /\ response' = Some(PageBody(page))
    /\ requests' = requests + 1
    /\ fe_pc' = "got"
    /\ UNCHANGED <<srv, tail, page, all_events, calls, attempt_number, waits, failed,
                   result, raised>>
    /\ UNCHANGED notFetch

\* one attempt of get() that raises, and the wrapper retries
AttemptRetry ==
    /\ fe_pc = "get"
    /\ \E o \in TransportOutcomes \ {[kind |-> "ok", status |-> 200]} :
          /\ retry_if_exception_type(AttemptError(o))
          /\ ~ stop_after_attempt(attempt_number)
          /\ attempts' = Append(attempts, o)
    /\ waits' = Append(waits, wait_exponential(attempt_number))
    /\ attempt_number' = attempt_number + 1
    /\ requests' = requests + 1
    /\ failed' = failed + 1
    /\ UNCHANGED <<srv, tail, fe_pc, page, all_events, calls, response, result, raised>>
    /\ UNCHANGED notFetch

\* one attempt of get() that raises, and the wrapper gives up: get() raises,
\* get_events logs and re-raises
AttemptRaise ==
    /\ fe_pc = "get"
    /\ \E o \in TransportOutcomes \ {[kind |-> "ok", status |-> 200]} :
          /\ (~ retry_if_exception_type(AttemptError(o))
                \/ stop_after_attempt(attempt_number))
          /\ attempts' = Append(attempts, o)
          /\ raised' = Some(reraise(AttemptError(o), attempt_number))
    /\ result' = ResultOnError(all_events)
    /\ requests' = requests + 1
    /\ failed' = failed + 1
    /\ fe_pc' = "raised"
    /\ UNCHANGED <<srv, tail, page, all_events, calls, attempt_number, waits, response>>
    /\ UNCHANGED notFetch

\* the loop body after get() returned: stop on an empty page or a missing next
\* link, otherwise go on to the next page's get(); the model follows the loop
\* for MaxPages + 1 pages
LoopBody ==
    /\ fe_pc = "got"
    /\ LET body == response[1]
       IN  IF body.events = <<>>
           THEN /\ result' = Some(all_events)
                /\ fe_pc' = "returned"
                /\ UNCHANGED <<page, all_events, calls, attempt_number, attempts,
                               waits>>
           ELSE /\ all_events' = all_events \o body.events
                /\ IF ~ has_next(body, page)
                   THEN /\ result' = Some(all_events')
                        /\ fe_pc' = "returned"
                        /\ UNCHANGED <<page, calls, attempt_number, attempts, waits>>
                   ELSE /\ page <= MaxPages
                        /\ page' = NextPage(page)
                        /\ calls' = Append(calls, page')
                        /\ attempt_number' = new_call_attempt(attempt_number)
                        /\ attempts' = <<>>
                        /\ waits' = <<>>
                        /\ fe_pc' = "get"
                        /\ UNCHANGED result
    /\ UNCHANGED <<srv, tail, requests, failed, response, raised>>
    /\ UNCHANGED notFetch

FetchNext ==
    \/ GetEventsStart
    \/ AttemptOk
    \/ AttemptRetry
    \/ AttemptRaise
    \/ LoopBody

----------------------------------------------------------------------------
(* The latency store (app/latency_checker.py): one SQLite table            *)
(* latency(timestamp TEXT, latency_ms INTEGER) without a key.              *)

\* Calendar dates 2025-01-14 and 2025-01-15 (as day numbers), hours of the day,
\* and a sub-second part: the datetime values handed to save_latency.
Days == {14, 15}
Hours == {10, 11}
Micros == {0, 5}
Latencies == {100, 150}
Datetimes == [day : Days, hour : Hours, micro : Micros]

\* datetime.isoformat() instead of the fixed format: the sub-second part stays
strftime_Iso(T) == [date |-> T.day, time |-> T.hour, micro |-> T.micro]

\* timestamp.strftime("%Y-%m-%dT%H:%M:%SZ"): second precision, the sub-second
\* part of the datetime is dropped
strftime(T) == [date |-> T.day, time |-> T.hour]

\* SQLite's date(timestamp): the calendar date portion of the stored string
sql_date(ts) == ts.date

\* the positions of the rows matching WHERE date(timestamp) = d
RowsOfDate(tbl, d) == {i \in 1..Len(tbl) : sql_date(tbl[i].timestamp) = d}

\* INSERT INTO latency (timestamp, latency_ms) VALUES (?, ?)
save_latency(tbl, latency_ms, T) ==
    Append(tbl, [timestamp |-> strftime(T), latency_ms |-> latency_ms])

\* ORDER BY latency_ms without DESC: the smallest sample of the date comes first
MaxCandidates_Ascending(tbl, d) ==
    {<<tbl[i].timestamp, tbl[i].latency_ms>> :
        i \in {k \in RowsOfDate(tbl, d) :
                 \A m \in RowsOfDate(tbl, d) : tbl[k].latency_ms <= tbl[m].latency_ms}}

\* SELECT ... WHERE date(timestamp) = ? ORDER BY latency_ms DESC LIMIT 1: any
\* row of the date with the greatest latency_ms (SQLite fixes no order among
\* equal keys); the empty set when the date has no row
MaxCandidates(tbl, d) ==
    {<<tbl[i].timestamp, tbl[i].latency_ms>> :
        i \in {k \in RowsOfDate(tbl, d) :
                 \A m \in RowsOfDate(tbl, d) : tbl[k].latency_ms >= tbl[m].latency_ms}}

\* a WHERE clause that compares with <= : earlier dates are deleted too
delete_latency_for_date_Earlier(tbl, d) ==
    LET kept == SelectSeq(tbl, LAMBDA r : ~ (sql_date(r.timestamp) <= d))
    IN  [rows |-> kept, deleted_count |-> Len(tbl) - Len(kept)]

\* a DELETE limited to the rows the run's SELECT had matched: rows of the date
\* that arrived later stay in the table
delete_latency_for_date_Selected(tbl, d) ==
    LET seen(i) == Cardinality({k \in RowsOfDate(tbl, d) : k <= i}) <= d_selected
        kept[n \in 0..Len(tbl)] ==
            IF n = 0 THEN <<>>
            ELSE IF n \in RowsOfDate(tbl, d) /\ seen(n)
                 THEN kept[n - 1]
                 ELSE Append(kept[n - 1], tbl[n])
    IN  [rows |-> kept[Len(tbl)], deleted_count |-> Len(tbl) - Len(kept[Len(tbl)])]

\* DELETE FROM latency WHERE date(timestamp) = ?, and cursor.rowcount
delete_latency_for_date(tbl, d) ==
    LET kept == SelectSeq(tbl, LAMBDA r : sql_date(r.timestamp) # d)
    IN  [rows |-> kept, deleted_count |-> Len(tbl) - Len(kept)]

\* CREATE TABLE latency without IF NOT EXISTS: a second start fails
init_database_PlainCreate(db) ==
    IF "latency" \in db.schema
    THEN [schema |-> db.schema, rows |-> db.rows, raised |-> TRUE]
    ELSE [schema |-> db.schema \cup {"latency", "idx_latency_timestamp"},
          rows |-> <<>>, raised |-> FALSE]

\* LatencyChecker._init_database: CREATE TABLE IF NOT EXISTS latency (a new
\* table is empty, an existing one is left alone), then CREATE INDEX IF NOT
\* EXISTS idx_latency_timestamp
init_database(db) ==
    LET created == IF "latency" \in db.schema
                   THEN db
                   ELSE [schema |-> db.schema \cup {"latency"}, rows |-> <<>>]
    IN  [schema |-> created.schema \cup {"idx_latency_timestamp"},
         rows |-> created.rows, raised |-> FALSE]

\* a probe that records 0 ms when the measurement failed
measure_and_save_ZeroOnFailure(tbl, m, now) ==
    IF m = None
    THEN [rows |-> save_latency(tbl, 0, now), raised |-> TRUE, ret |-> None]
    ELSE [rows |-> save_latency(tbl, m[1], now), raised |-> FALSE, ret |-> m]

\* LatencyChecker.measure_and_save: measure_latency() raises when the account
\* request failed (m is None), otherwise returns the elapsed milliseconds m;
\* save_latency(latency_ms) then stores them with the current UTC time
measure_and_save(tbl, m, now) ==
    IF m = None
    THEN [rows |-> tbl, raised |-> TRUE, ret |-> None]
    ELSE [rows |-> save_latency(tbl, m[1], now), raised |-> FALSE, ret |-> m]

NoOp == [op |-> "none", date |-> 0, latency_ms |-> 0, T |-> None,
         before |-> 0, ret |-> None, raised |-> FALSE]

\* a database file that no process has opened yet
StoreInit ==
    /\ schema = {}
    /\ rows = <<>>
    /\ last_op = NoOp
    /\ prev_op = NoOp

\* save_latency(latency_ms, timestamp); a call without timestamp takes the
\* current UTC time, which is some datetime as well
SaveLatency ==
    /\ "latency" \in schema
    /\ Len(rows) < MaxRows
    /\ \E v \in Latencies, T \in Datetimes :
          /\ rows' = save_latency(rows, v, T)
          /\ last_op' = [op |-> "save", date |-> T.day, latency_ms |-> v,
                         T |-> Some(T),
                         before |-> Cardinality(RowsOfDate(rows, T.day)),
                         ret |-> None, raised |-> FALSE]
    /\ prev_op' = last_op
    /\ UNCHANGED schema
    /\ UNCHANGED notStore

\* get_max_latency_for_date(date)
GetMaxLatencyForDate ==
    /\ "latency" \in schema
    /\ \E d \in Days :
          \E r \in (IF MaxCandidates(rows, d) = {} THEN {None}
                    ELSE {Some(c) : c \in MaxCandidates(rows, d)}) :
             last_op' = [op |-> "max", date |-> d, latency_ms |-> 0, T |-> None,
                         before |-> Cardinality(RowsOfDate(rows, d)),
                         ret |-> r, raised |-> FALSE]
    /\ prev_op' = last_op
    /\ UNCHANGED <<schema, rows>>
    /\ UNCHANGED notStore

\* delete_latency_for_date(date)
DeleteLatencyForDate ==
    /\ "latency" \in schema
    /\ \E d \in Days :
          LET res == delete_latency_for_date(rows, d)
          IN  /\ rows' = res.rows
              /\ last_op' = [op |-> "delete", date |-> d, latency_ms |-> 0,
                             T |-> None,
                             before |-> Cardinality(RowsOfDate(rows, d)),
                             ret |-> Some(res.deleted_count), raised |-> FALSE]
    /\ prev_op' = last_op
    /\ UNCHANGED schema
    /\ UNCHANGED notStore

\* LatencyChecker(): a process start opens the database file
InitDatabase ==
    /\ LET res == init_database([schema |-> schema, rows |-> rows])
       IN  /\ schema' = res.schema
           /\ rows' = res.rows
           /\ last_op' = [op |-> "init", date |-> 0, latency_ms |-> 0, T |-> None,
                          before |-> 0, ret |-> None,
                          raised |-> res.raised]
    /\ prev_op' = last_op
    /\ UNCHANGED notStore

\* measure_and_save(): the hourly probe's measurement, then the insert
MeasureAndSave ==
    /\ "latency" \in schema
    /\ \E m \in {None} \cup {Some(v) : v \in Latencies}, now \in Datetimes :
          LET res == measure_and_save(rows, m, now)
          IN  /\ Len(res.rows) <= MaxRows
              /\ rows' = res.rows
              /\ last_op' = [op |-> "probe", date |-> 0, latency_ms |-> 0,
                             T |-> IF res.raised THEN None ELSE Some(now),
                             before |-> Len(rows),
                             ret |-> res.ret, raised |-> res.raised]
    /\ prev_op' = last_op
    /\ UNCHANGED schema
    /\ UNCHANGED notStore

StoreNext ==
    \/ InitDatabase
    \/ MeasureAndSave
    \/ SaveLatency
    \/ GetMaxLatencyForDate
    \/ DeleteLatencyForDate

----------------------------------------------------------------------------
(* The processor as a state machine: the inputs are drawn at Init, then    *)
(* each method is called in the order process_events calls them.           *)

ProcInit ==
    /\ events \in EventLists
    /\ events_in = events
    /\ user_ids \in UserIdLists
    /\ top_limit_arg \in TopLimitArgs
    /\ limit_arg = None
    /\ proc_pc = "start"
    /\ automated_events = <<>>
    /\ type_counts = <<>>
    /\ top_events = <<>>
    /\ processed = <<>>

CallFilterAutomatedEvents ==
    /\ proc_pc = "start"
    /\ automated_events' = filter_automated_events(events, user_ids)
    /\ proc_pc' = "filtered"
    /\ UNCHANGED <<events, events_in, user_ids, top_limit_arg, limit_arg, type_counts,
                   top_events, processed>>
    /\ UNCHANGED notProc

CallCountEventTypes ==
    /\ proc_pc = "filtered"
    /\ type_counts' = count_event_types(automated_events)
    /\ proc_pc' = "counted"
    /\ UNCHANGED <<events, events_in, user_ids, top_limit_arg, limit_arg, automated_events,
                   top_events, processed>>
    /\ UNCHANGED notProc

CallGetTopEvents ==
    /\ proc_pc = "counted"
    /\ \E k \in LimitArgs :
          /\ limit_arg' = k
          /\ top_events' = get_top_events(type_counts, k, top_limit_of(top_limit_arg))
    /\ proc_pc' = "ranked"
    /\ UNCHANGED <<events, events_in, user_ids, top_limit_arg, automated_events, type_counts,
                   processed>>
    /\ UNCHANGED notProc

CallProcessEvents ==
    /\ proc_pc = "ranked"
    /\ processed' = process_events(events, user_ids, top_limit_of(top_limit_arg))
    /\ proc_pc' = "processed"
    /\ UNCHANGED <<events, events_in, user_ids, top_limit_arg, limit_arg, automated_events,
                   type_counts, top_events>>
    /\ UNCHANGED notProc

ProcNext ==
    \/ CallFilterAutomatedEvents
    \/ CallCountEventTypes
    \/ CallGetTopEvents
    \/ CallProcessEvents

----------------------------------------------------------------------------
(* Report assembly: app/main_daily_report.py *)

\* a spreadsheet cell that holds a value, and the empty string ""
Cell(x) == <<x>>
Blank == <<>>

\* the table of labels (three of its entries; the labels are transliterated)
EVENT_TYPE_NAMES ==
    [t \in {"lead_added", "task_added", "incoming_chat_message"} |->
        CASE t = "lead_added" -> "Novaya sdelka"
          [] t = "task_added" -> "Novaya zadacha"
          [] t = "incoming_chat_message" -> "Vkhodyashchee soobshchenie"]

\* the label of the placeholder row
NO_EVENTS_LABEL == "Net sobytiy"

\* the types a top_events entry can carry: listed in the table, or not
ReportTypes == {"lead_added", "task_added", "incoming_chat_message", "unknown"}
ReportCounts == {1, 2}

\* what Counter.most_common() can return: distinct types, counts not increasing
TopEventLists ==
    UNION { { t \in [1..n -> ReportTypes \X ReportCounts] :
                /\ \A i, j \in 1..n : i # j => t[i][1] # t[j][1]
                /\ \A i \in 1..n : i < n => t[i][2] >= t[i + 1][2] } :
            n \in 0..MaxTop }

\* what get_max_latency_for_date can return
PeakValues ==
    {None} \cup { Some(<<[date |-> d, time |-> h], l>>) :
                    d \in Days, h \in Hours, l \in {0} \cup Latencies }

\* format_date: strftime("%d.%m.%Y") of the report date
format_date(d) == <<"dd.mm.yyyy", d>>

\* the strings format_time can be handed: the timestamps save_latency writes,
\* and strings of another shape (here an ISO timestamp with a "+00:00" offset)
TimestampStrings ==
    {[date |-> d, time |-> h] : d \in Days, h \in Hours}
        \cup {[date |-> d, time |-> 10, suffix |-> "+00:00"] : d \in Days}

\* datetime.strptime(timestamp_str, "%Y-%m-%dT%H:%M:%SZ"): raises ValueError
\* on a string of another shape
strptime(timestamp_str) ==
    IF DOMAIN timestamp_str = {"date", "time"}
    THEN [raised |-> FALSE, hour |-> timestamp_str.time]
    ELSE [raised |-> TRUE, hour |-> 0]

\* format_time: the "%H:%M" part of the parsed timestamp (the date part is
\* dropped); when parsing raised, the except block logs and returns the
\* argument itself
format_time(timestamp_str) ==
    IF strptime(timestamp_str).raised
    THEN <<"raw", timestamp_str>>
    ELSE <<"HH:MM", strptime(timestamp_str).hour>>

\* a lookup that hands back the type string itself
get_event_name_Raw(event_type) == event_type

\* get_event_name: EVENT_TYPE_NAMES.get(event_type, event_type)
get_event_name(event_type) ==
    IF event_type \in DOMAIN EVENT_TYPE_NAMES
    THEN EVENT_TYPE_NAMES[event_type]
    ELSE event_type

\* a placeholder row that never carries the peak
placeholder_rows_NoPeak(date_str, peak) ==
    << <<date_str, NO_EVENTS_LABEL, 0, Blank, Blank>> >>

\* prepare_report_data, the branch `if not top_events`
placeholder_rows(date_str, peak) ==
    IF peak # None
    THEN << <<date_str, NO_EVENTS_LABEL, 0,
              Cell(peak[1][2]), Cell(format_time(peak[1][1]))>> >>
    ELSE << <<date_str, NO_EVENTS_LABEL, 0, Blank, Blank>> >>

\* the test `i == 0` left out: the peak is repeated in every row
event_rows_PeakEveryRow(date_str, top, peak) ==
    [i \in 1..Len(top) |->
        IF peak # None
        THEN <<date_str, get_event_name(top[i][1]), top[i][2],
               Cell(peak[1][2]), Cell(format_time(peak[1][1]))>>
        ELSE <<date_str, get_event_name(top[i][1]), top[i][2], Blank, Blank>>]

\* prepare_report_data, the loop over enumerate(top_events); the loop index
\* i == 0 is position 1 here
event_rows(date_str, top, peak) ==
    [i \in 1..Len(top) |->
        IF i = 1 /\ peak # None
        THEN <<date_str, get_event_name(top[i][1]), top[i][2],
               Cell(peak[1][2]), Cell(format_time(peak[1][1]))>>
        ELSE <<date_str, get_event_name(top[i][1]), top[i][2], Blank, Blank>>]

prepare_report_data(top, peak, date) ==
    LET date_str == format_date(date)
    IN  IF top = <<>>
        THEN placeholder_rows(date_str, peak)
        ELSE event_rows(date_str, top, peak)

ReportInit ==
    /\ report_date \in Days
    /\ rp_top_events \in TopEventLists
    /\ max_latency \in PeakValues
    /\ report_rows = <<>>
    /\ rp_pc = "ready"
    /\ ft_in \in TimestampStrings
    /\ ft_pc = "ready"
    /\ ft_failed = FALSE
    /\ ft_out = None
    /\ ft_raised = FALSE

CallPrepareReportData ==
    /\ rp_pc = "ready"
    /\ report_rows' = prepare_report_data(rp_top_events, max_latency, report_date)
    /\ rp_pc' = "done"
    /\ UNCHANGED <<report_date, rp_top_events, max_latency>>
    /\ UNCHANGED <<ft_in, ft_pc, ft_failed, ft_out, ft_raised>>
    /\ UNCHANGED notReport

\* a call of format_time: whatever happens inside, the call returns a string
CallFormatTime ==
    /\ ft_pc = "ready"
    /\ ft_failed' = strptime(ft_in).raised
    /\ ft_out' = Some(format_time(ft_in))
    /\ ft_raised' = FALSE
    /\ ft_pc' = "done"
    /\ UNCHANGED <<report_date, rp_top_events, max_latency, report_rows, rp_pc,
                   ft_in>>
    /\ UNCHANGED notReport

ReportNext ==
    \/ CallPrepareReportData
    \/ CallFormatTime

----------------------------------------------------------------------------
(* Worksheet initialisation: app/sheets_writer.py, SheetsWriter._get_worksheet *)

Threads == 1..NThreads

\* the outer test `if self._worksheet is None`, made without the lock
outer_check(ws) == ws = None

\* the inner test left out: whoever gets the lock initialises again
inner_check_Skipped(ws) == TRUE

\* the inner test `if self._worksheet is None`, made under the lock
inner_check(ws) == ws = None

\* SheetsWriter.__init__
SheetsInit ==
    /\ client = None
    /\ worksheet = None
    /\ init_lock = 0
    /\ sh_pc = [t \in Threads |-> "idle"]
    /\ sh_calls = [t \in Threads |-> 0]
    /\ got = [t \in Threads |-> None]
    /\ authorized = 0
    /\ opened = 0
    /\ init_failed = 0

\* a thread (asyncio.to_thread) enters _get_worksheet
GetWorksheetCall(t) ==
    /\ sh_pc[t] = "idle"
    /\ sh_calls[t] < MaxCalls
    /\ sh_calls' = [sh_calls EXCEPT ![t] = @ + 1]
    /\ sh_pc' = [sh_pc EXCEPT ![t] = "check1"]
    /\ UNCHANGED <<client, worksheet, init_lock, got, authorized, opened,
                   init_failed>>
    /\ UNCHANGED notSheets

OuterCheck(t) ==
    /\ sh_pc[t] = "check1"
    /\ sh_pc' = [sh_pc EXCEPT ![t] = IF outer_check(worksheet)
                                     THEN "acquire" ELSE "return"]
    /\ UNCHANGED <<client, worksheet, init_lock, sh_calls, got, authorized,
                   opened, init_failed>>
    /\ UNCHANGED notSheets

\* `with self._init_lock:` blocks until the lock is free
AcquireLock(t) ==
    /\ sh_pc[t] = "acquire"
    /\ init_lock = 0
    /\ init_lock' = t
    /\ sh_pc' = [sh_pc EXCEPT ![t] = "check2"]
    /\ UNCHANGED <<client, worksheet, sh_calls, got, authorized, opened,
                   init_failed>>
    /\ UNCHANGED notSheets

InnerCheck(t) ==
    /\ sh_pc[t] = "check2"
    /\ sh_pc' = [sh_pc EXCEPT ![t] =
                    IF inner_check(worksheet)
                    THEN (IF client = None THEN "authorize" ELSE "open")
                    ELSE "release"]
    /\ UNCHANGED <<client, worksheet, init_lock, sh_calls, got, authorized,
                   opened, init_failed>>
    /\ UNCHANGED notSheets

\* _get_credentials() and gspread.authorize(credentials) return
AuthorizeOk(t) ==
    /\ sh_pc[t] = "authorize"
    /\ authorized' = authorized + 1
    /\ client' = Some(authorized + 1)
    /\ sh_pc' = [sh_pc EXCEPT ![t] = "open"]
    /\ UNCHANGED <<worksheet, init_lock, sh_calls, got, opened, init_failed>>
    /\ UNCHANGED notSheets

\* open_by_key(...) and .sheet1 return a worksheet object
OpenOk(t) ==
    /\ sh_pc[t] = "open"
    /\ opened' = opened + 1
    /\ worksheet' = Some(opened + 1)
    /\ sh_pc' = [sh_pc EXCEPT ![t] = "release"]
    /\ UNCHANGED <<client, init_lock, sh_calls, got, authorized, init_failed>>
    /\ UNCHANGED notSheets

\* the credentials file is missing, or the spreadsheet is not found: the
\* exception leaves the `with` block, which frees the lock, and the call
InitRaises(t) ==
    /\ sh_pc[t] \in {"authorize", "open"}
    /\ init_failed < MaxInitFailures
    /\ init_failed' = init_failed + 1
    /\ init_lock' = 0
    /\ got' = [got EXCEPT ![t] = None]
    /\ sh_pc' = [sh_pc EXCEPT ![t] = "idle"]
    /\ UNCHANGED <<client, worksheet, sh_calls, authorized, opened>>
    /\ UNCHANGED notSheets

\* the end of the `with` block
ReleaseLock(t) ==
    /\ sh_pc[t] = "release"
    /\ init_lock' = 0
    /\ sh_pc' = [sh_pc EXCEPT ![t] = "return"]
    /\ UNCHANGED <<client, worksheet, sh_calls, got, authorized, opened,
                   init_failed>>
    /\ UNCHANGED notSheets

\* `return self._worksheet`
ReturnWorksheet(t) ==
    /\ sh_pc[t] = "return"
    /\ got' = [got EXCEPT ![t] = worksheet]
    /\ sh_pc' = [sh_pc EXCEPT ![t] = "idle"]
    /\ UNCHANGED <<client, worksheet, init_lock, sh_calls, authorized, opened,
                   init_failed>>
    /\ UNCHANGED notSheets

SheetsNext ==
    \E t \in Threads :
        \/ GetWorksheetCall(t)
        \/ OuterCheck(t)
        \/ AcquireLock(t)
        \/ InnerCheck(t)
        \/ AuthorizeOk(t)
        \/ OpenOk(t)
        \/ InitRaises(t)
        \/ ReleaseLock(t)
        \/ ReturnWorksheet(t)

----------------------------------------------------------------------------
(* The scheduled entry points: app/main_daily_report.py main,
   app/main_ping_probe.py main *)

\* the header row main passes to ensure_headers (transliterated)
HEADERS == <<"Data", "Sobytie", "Kol-vo", "Pikovaya nagruzka (ms)", "Vremya pika">>

\* a main that clears the latency rows before it writes the report
MainSteps_DeleteFirst ==
    <<"get_users", "get_events", "process_events", "get_max_latency",
      "prepare_report_data", "ensure_headers", "delete_latency", "append_rows">>

\* the steps of the daily main, in program order
MainSteps ==
    <<"get_users", "get_events", "process_events", "get_max_latency",
      "prepare_report_data", "ensure_headers", "append_rows", "delete_latency">>

StepIndex(step) == CHOOSE i \in 1..Len(MainSteps) : MainSteps[i] = step

\* the statement after a step: the next step, or the end of the try block
StepAfter(step) ==
    IF StepIndex(step) < Len(MainSteps)
    THEN MainSteps[StepIndex(step) + 1]
    ELSE "done"

\* tenants whose users fit one page, and one whose users take two
TenantUserPages == { << <<1>> >>, << <<1, 2>> >>, << <<1>>, <<2>> >> }

TenantEventLists ==
    { <<>>,
      << EventAt(1, Some(2), Some("lead_added")),
         EventAt(2, None, Some("task_added")),
         EventAt(3, None, None) >> }

FirstRows == { <<>>, <<"x">>, HEADERS }

\* the clock readings of the probes that run beside the daily job
ProbeNows == {T \in Datetimes : T.hour = 10 /\ T.micro = 0}

\* yesterday = datetime.now().date() - timedelta(days=1), for the n-th daily
\* invocation of the timer (one invocation per day, the first on day 15)
ReportDateOf(n) == (14 + n) - 1

\* AmoCRMClient.get_users: one GET /api/v4/users without a page parameter; the
\* ids of the users embedded in that response
get_users(pages) == IF pages = <<>> THEN <<>> ELSE pages[1]

\* a header check that rewrites row 1 on every call
ensure_headers_Always(existing_headers, headers) ==
    [first_row |-> headers, wrote |-> TRUE]

\* SheetsWriter.ensure_headers, the write decision
ensure_headers(existing_headers, headers) ==
    IF existing_headers = <<>> \/ existing_headers # headers
    THEN [first_row |-> headers, wrote |-> TRUE]
    ELSE [first_row |-> existing_headers, wrote |-> FALSE]

\* SheetsWriter.append_rows: an empty list is not sent
append_rows(sheet, new_rows) ==
    IF new_rows = <<>> THEN sheet ELSE sheet \o new_rows

\* an except block that logs and lets main carry on with the next statement
main_handler_Continue(step) == [pc |-> StepAfter(step), exit_status |-> None]

\* main's `except Exception`: log, then sys.exit(1)
main_handler(step) == [pc |-> "exited", exit_status |-> Some(1)]

\* the probe main's `except Exception`: log, then sys.exit(1)
probe_main_handler == Some(1)

DailyInit ==
    /\ tenant_users \in TenantUserPages
    /\ tenant_events \in TenantEventLists
    /\ first_row \in FirstRows
    /\ sheet_rows = <<>>
    /\ run_no = 0
    /\ d_pc = "idle"
    /\ d_report_date = 0
    /\ d_user_ids = <<>>
    /\ d_events = <<>>
    /\ d_top_events = <<>>
    /\ d_max_latency = None
    /\ d_report_rows = <<>>
    /\ d_steps = <<>>
    /\ d_failed = None
    /\ exit_status = None
    /\ run_writes = {}
    /\ prev_run = None
    /\ probe_raised = FALSE
    /\ probe_exit = None
    /\ d_selected = 0
    /\ d_late = 0

\* the rows of a table matching WHERE date(timestamp) = d, in table order
SelectOfDate(tbl, d) == SelectSeq(tbl, LAMBDA r : sql_date(r.timestamp) = d)

\* the statements of main between the SELECT of get_max_latency_for_date and
\* the DELETE of delete_latency_for_date
AfterSelect == {"prepare_report_data", "ensure_headers", "append_rows",
                "delete_latency"}

\* what every step of main leaves alone
DailyFrame == <<tenant_users, tenant_events, run_no, d_report_date, prev_run,
                probe_raised, probe_exit>>

\* the step that stands at d_pc raised: main's handler takes over
StepRaises(step) ==
    /\ d_steps' = Append(d_steps, step)
    /\ d_failed' = Some(step)
    /\ d_pc' = main_handler(step).pc
    /\ exit_status' = main_handler(step).exit_status

\* the step that stands at d_pc returned
StepReturns(step) ==
    /\ d_steps' = Append(d_steps, step)
    /\ d_pc' = StepAfter(step)
    /\ UNCHANGED d_failed
    /\ exit_status' = IF StepAfter(step) = "done" THEN Some(0) ELSE exit_status

\* the timer starts the daily process: the report date is yesterday
StartDailyRun ==
    /\ d_pc \in {"idle", "done", "exited"}
    /\ run_no < MaxRuns
    /\ run_no' = run_no + 1
    /\ d_report_date' = ReportDateOf(run_no + 1)
    /\ prev_run' = IF run_no = 0 THEN None
                   ELSE Some([date |-> d_report_date,
                              appended |-> "rows" \in run_writes,
                              header |-> "header" \in run_writes])
    /\ d_pc' = MainSteps[1]
    /\ d_user_ids' = <<>>
    /\ d_events' = <<>>
    /\ d_top_events' = <<>>
    /\ d_max_latency' = None
    /\ d_report_rows' = <<>>
    /\ d_steps' = <<>>
    /\ d_failed' = None
    /\ exit_status' = None
    /\ run_writes' = {}
    /\ d_selected' = 0
    /\ d_late' = 0
    /\ UNCHANGED <<tenant_users, tenant_events, first_row, sheet_rows,
                   probe_raised, probe_exit, schema, rows>>
    /\ UNCHANGED notDaily

\* user_ids = await amocrm_client.get_users()
StepGetUsers ==
    /\ d_pc = "get_users"
    /\ \/ /\ StepReturns("get_users")
          /\ d_user_ids' = get_users(tenant_users)
       \/ /\ StepRaises("get_users")
          /\ UNCHANGED d_user_ids
    /\ UNCHANGED <<d_events, d_top_events, d_max_latency, d_report_rows,
                   first_row, sheet_rows, run_writes, schema, rows>>
    /\ UNCHANGED <<d_selected, d_late>>
    /\ UNCHANGED DailyFrame
    /\ UNCHANGED notDaily

\* events = await amocrm_client.get_events(date_from, date_to): every event of
\* the date, or the exception of the failed fetch
StepGetEvents ==
    /\ d_pc = "get_events"
    /\ \/ /\ StepReturns("get_events")
          /\ d_events' = tenant_events
       \/ /\ StepRaises("get_events")
          /\ UNCHANGED d_events
    /\ UNCHANGED <<d_user_ids, d_top_events, d_max_latency, d_report_rows,
                   first_row, sheet_rows, run_writes, schema, rows>>
    /\ UNCHANGED <<d_selected, d_late>>
    /\ UNCHANGED DailyFrame
    /\ UNCHANGED notDaily

\* top_events = EventsProcessor().process_events(events, user_ids)
StepProcessEvents ==
    /\ d_pc = "process_events"
    /\ StepReturns("process_events")
    /\ d_top_events' = process_events(d_events, d_user_ids, TOP_EVENTS_LIMIT)
    /\ UNCHANGED <<d_user_ids, d_events, d_max_latency, d_report_rows,
                   first_row, sheet_rows, run_writes, schema, rows>>
    /\ UNCHANGED <<d_selected, d_late>>
    /\ UNCHANGED DailyFrame
    /\ UNCHANGED notDaily

\* latency_checker = LatencyChecker();
\* max_latency = latency_checker.get_max_latency_for_date(date_str)
StepGetMaxLatency ==
    /\ d_pc = "get_max_latency"
    /\ LET db == init_database([schema |-> schema, rows |-> rows])
       IN  /\ schema' = db.schema
           /\ rows' = db.rows
           /\ \/ /\ StepReturns("get_max_latency")
                 /\ d_max_latency' \in
                       (IF MaxCandidates(db.rows, d_report_date) = {}
                        THEN {None}
                        ELSE {Some(c) : c \in MaxCandidates(db.rows, d_report_date)})
                 /\ d_selected' = Len(SelectOfDate(db.rows, d_report_date))
              \/ /\ StepRaises("get_max_latency")
                 /\ UNCHANGED <<d_max_latency, d_selected>>
    /\ UNCHANGED d_late
    /\ UNCHANGED <<d_user_ids, d_events, d_top_events, d_report_rows,
                   first_row, sheet_rows, run_writes>>
    /\ UNCHANGED DailyFrame
    /\ UNCHANGED notDaily

\* report_rows = prepare_report_data(report_date, top_events, max_latency)
StepPrepareReportData ==
    /\ d_pc = "prepare_report_data"
    /\ StepReturns("prepare_report_data")
    /\ d_report_rows' = prepare_report_data(d_top_events, d_max_latency,
                                            d_report_date)
    /\ UNCHANGED <<d_user_ids, d_events, d_top_events, d_max_latency,
                   first_row, sheet_rows, run_writes, schema, rows>>
    /\ UNCHANGED <<d_selected, d_late>>
    /\ UNCHANGED DailyFrame
    /\ UNCHANGED notDaily

\* await sheets_writer.ensure_headers(headers)
StepEnsureHeaders ==
    /\ d_pc = "ensure_headers"
    /\ \/ /\ StepReturns("ensure_headers")
          /\ first_row' = ensure_headers(first_row, HEADERS).first_row
          /\ run_writes' = IF ensure_headers(first_row, HEADERS).wrote
                           THEN run_writes \cup {"header"}
                           ELSE run_writes
       \/ /\ StepRaises("ensure_headers")
          /\ UNCHANGED <<first_row, run_writes>>
    /\ UNCHANGED <<d_user_ids, d_events, d_top_events, d_max_latency,
                   d_report_rows, sheet_rows, schema, rows>>
    /\ UNCHANGED <<d_selected, d_late>>
    /\ UNCHANGED DailyFrame
    /\ UNCHANGED notDaily

\* await sheets_writer.append_rows(report_rows)
StepAppendRows ==
    /\ d_pc = "append_rows"
    /\ \/ /\ StepReturns("append_rows")
          /\ sheet_rows' = append_rows(sheet_rows, d_report_rows)
          /\ run_writes' = IF d_report_rows = <<>>
                           THEN run_writes
                           ELSE run_writes \cup {"rows"}
       \/ /\ StepRaises("append_rows")
          /\ UNCHANGED <<sheet_rows, run_writes>>
    /\ UNCHANGED <<d_user_ids, d_events, d_top_events, d_max_latency,
                   d_report_rows, first_row, schema, rows>>
    /\ UNCHANGED <<d_selected, d_late>>
    /\ UNCHANGED DailyFrame
    /\ UNCHANGED notDaily

\* deleted_count = latency_checker.delete_latency_for_date(date_str)
StepDeleteLatency ==
    /\ d_pc = "delete_latency"
    /\ \/ /\ StepReturns("delete_latency")
          /\ rows' = delete_latency_for_date(rows, d_report_date).rows
       \/ /\ StepRaises("delete_latency")
          /\ UNCHANGED rows
    /\ UNCHANGED <<d_selected, d_late>>
    /\ UNCHANGED <<d_user_ids, d_events, d_top_events, d_max_latency,
                   d_report_rows, first_row, sheet_rows, run_writes, schema>>
    /\ UNCHANGED DailyFrame
    /\ UNCHANGED notDaily

\* one run of the probe process: LatencyChecker(), then measure_and_save()
ProbeMain ==
    /\ \E m \in {None} \cup {Some(v) : v \in Latencies}, now \in ProbeNows :
          LET db == init_database([schema |-> schema, rows |-> rows])
              res == measure_and_save(db.rows, m, now)
          IN  /\ Len(res.rows) <= MaxSamples
              /\ schema' = db.schema
              /\ rows' = res.rows
              /\ probe_raised' = res.raised
              /\ probe_exit' = IF res.raised THEN probe_main_handler ELSE Some(0)
              /\ d_late' = IF /\ d_pc \in AfterSelect
                              /\ ~ res.raised
                              /\ sql_date(strftime(now)) = d_report_date
                           THEN d_late + 1
                           ELSE d_late
    /\ UNCHANGED <<tenant_users, tenant_events, first_row, sheet_rows, run_no,
                   d_pc, d_report_date, d_user_ids, d_events, d_top_events,
                   d_max_latency, d_report_rows, d_steps, d_failed, exit_status,
                   run_writes, prev_run, d_selected>>
    /\ UNCHANGED notDaily

DailyNext ==
    \/ StartDailyRun
    \/ StepGetUsers
    \/ StepGetEvents
    \/ StepProcessEvents
    \/ StepGetMaxLatency
    \/ StepPrepareReportData
    \/ StepEnsureHeaders
    \/ StepAppendRows
    \/ StepDeleteLatency
    \/ ProbeMain

----------------------------------------------------------------------------
(* The specifications, one per component *)

ProcIdle ==
    /\ events = <<>> /\ events_in = <<>> /\ user_ids = <<>>
    /\ top_limit_arg = None /\ limit_arg = None /\ proc_pc = "idle"
    /\ automated_events = <<>> /\ type_counts = <<>> /\ top_events = <<>>
    /\ processed = <<>>

FetchIdle ==
    /\ srv = <<>> /\ tail = "empty" /\ fe_pc = "idle" /\ page = 0 /\ all_events = <<>>
    /\ calls = <<>> /\ attempt_number = 0 /\ attempts = <<>> /\ waits = <<>>
    /\ requests = 0 /\ failed = 0
    /\ response = None /\ result = None /\ raised = None

StoreIdle == schema = {} /\ rows = <<>> /\ last_op = NoOp /\ prev_op = NoOp

ReportIdle ==
    /\ report_date = 14 /\ rp_top_events = <<>> /\ max_latency = None
    /\ report_rows = <<>> /\ rp_pc = "idle"
    /\ ft_in = None /\ ft_pc = "idle" /\ ft_failed = FALSE /\ ft_out = None
    /\ ft_raised = FALSE

DailyIdle ==
    /\ tenant_users = <<>> /\ tenant_events = <<>> /\ first_row = <<>>
    /\ sheet_rows = <<>> /\ run_no = 0 /\ d_pc = "off" /\ d_report_date = 0
    /\ d_user_ids = <<>> /\ d_events = <<>> /\ d_top_events = <<>>
    /\ d_max_latency = None /\ d_report_rows = <<>> /\ d_steps = <<>>
    /\ d_failed = None /\ exit_status = None /\ run_writes = {}
    /\ prev_run = None /\ probe_raised = FALSE /\ probe_exit = None
    /\ d_selected = 0
    /\ d_late = 0

SheetsIdle == SheetsInit

InitProc == ProcInit /\ FetchIdle /\ StoreIdle /\ ReportIdle /\ SheetsIdle /\ DailyIdle

SpecProc == InitProc /\ [][ProcNext]_vars

InitFetch == FetchInit /\ ProcIdle /\ StoreIdle /\ ReportIdle /\ SheetsIdle /\ DailyIdle

SpecFetch == InitFetch /\ [][FetchNext]_vars

\* the event loop runs the coroutine on: a pending request completes (with a
\* response or an error) and the statements after it are executed
SpecFetchLive == InitFetch /\ [][FetchNext]_vars /\ WF_vars(FetchNext)

InitStore == StoreInit /\ ProcIdle /\ FetchIdle /\ ReportIdle /\ SheetsIdle /\ DailyIdle

SpecStore == InitStore /\ [][StoreNext]_vars

InitReport == ReportInit /\ ProcIdle /\ FetchIdle /\ StoreIdle /\ SheetsIdle /\ DailyIdle

SpecReport == InitReport /\ [][ReportNext]_vars

InitSheets == SheetsInit /\ ProcIdle /\ FetchIdle /\ StoreIdle /\ ReportIdle /\ DailyIdle

SpecSheets == InitSheets /\ [][SheetsNext]_vars

InitDaily ==
    DailyInit /\ StoreInit /\ ProcIdle /\ FetchIdle /\ ReportIdle /\ SheetsIdle

SpecDaily == InitDaily /\ [][DailyNext]_vars

----------------------------------------------------------------------------
(* Claims about the events processor *)

UserIdSet == {user_ids[j] : j \in 1..Len(user_ids)}

\* the positions of events_in whose event is automated
KeptIdx ==
    {i \in 1..Len(events_in) :
        events_in[i].created_by = None \/ events_in[i].created_by[1] \notin UserIdSet}

\* the j-th smallest kept position
NthKept(j) == CHOOSE i \in KeptIdx : Cardinality({m \in KeptIdx : m <= i}) = j

\* C1: filter_automated_events(E, U) returns exactly the events of E whose
\* created_by is None/absent or not a member of U, in input order, each kept
\* event once, and E is left unmodified.
C1_FilterExact ==
    proc_pc # "start" =>
        /\ Len(automated_events) = Cardinality(KeptIdx)
        /\ \A j \in 1..Len(automated_events) : automated_events[j] = events_in[NthKept(j)]
        /\ events = events_in

C1_Witness ==
    /\ proc_pc = "filtered"
    /\ Len(automated_events) = 2
    /\ Len(events) = 3
    /\ automated_events[1].created_by = None
    /\ automated_events[2].created_by # None
    /\ events[1].created_by # None
    /\ events[1].created_by[1] \in UserIdSet

RECURSIVE SumCounts(_)
SumCounts(counts) ==
    IF counts = <<>> THEN 0 ELSE counts[1][2] + SumCounts(Tail(counts))

\* the number of events counted under label t
CountedUnder(evs, t) ==
    Cardinality({i \in 1..Len(evs) :
        \/ evs[i].type = None /\ t = "unknown"
        \/ evs[i].type = Some(t)})

\* C2: the counts returned by count_event_types(E) sum to len(E); each event is
\* counted under exactly one type, an event without a type under "unknown".
C2_CountTotals ==
    proc_pc \in {"counted", "ranked", "processed"} =>
        /\ SumCounts(type_counts) = Len(automated_events)
        /\ \A j, k \in 1..Len(type_counts) :
              type_counts[j][1] = type_counts[k][1] => j = k
        /\ \A j \in 1..Len(type_counts) :
              type_counts[j][2] = CountedUnder(automated_events, type_counts[j][1])
        /\ (\E i \in 1..Len(automated_events) : automated_events[i].type = None)
              => \E j \in 1..Len(type_counts) : type_counts[j][1] = "unknown"

C2_Witness ==
    /\ proc_pc = "counted"
    /\ Len(automated_events) = 3
    /\ \E j \in 1..Len(type_counts) :
          type_counts[j][1] = "unknown" /\ type_counts[j][2] = 2
    /\ Len(type_counts) = 2

\* C3: for every count map and every limit k >= 0, get_top_events(counts, k)
\* returns exactly min(k, |counts|) pairs, never padded, ordered by count
\* descending.
C3_TopNBound ==
    (proc_pc = "ranked" /\ limit_arg # None) =>
        /\ Len(top_events) = Min(limit_arg[1], Len(type_counts))
        /\ \A j \in 1..Len(top_events) - 1 : top_events[j][2] >= top_events[j + 1][2]
        /\ \A j \in 1..Len(top_events) :
              \E k \in 1..Len(type_counts) : type_counts[k] = top_events[j]

----------------------------------------------------------------------------
(* Claims about the paginated fetch and the retrying GET *)

\* page k exists on the server and is non-empty
Served(k) == k \in 1..Len(srv) /\ srv[k].n > 0

\* page k is non-empty and carries a next link
Linked(k) == Served(k) /\ srv[k].next

\* the first page that is empty or lacks the next link
FirstStop ==
    CHOOSE k \in 1..(Len(srv) + 1) : ~ Linked(k) /\ \A j \in 1..(k - 1) : Linked(j)

\* N: the number of non-empty pages the source serves to a reader
NServed == IF Served(FirstStop) THEN FirstStop ELSE FirstStop - 1

RECURSIVE ConcatPages(_)
ConcatPages(n) ==
    IF n = 0 THEN <<>>
    ELSE ConcatPages(n - 1) \o [i \in 1..srv[n].n |-> <<n, i>>]

\* C4: against a source that serves N non-empty pages, get_events requests
\* pages 1, 2, ... in increasing order without skipping or repeating one and
\* returns the concatenation, in page order, of exactly those N pages; it makes
\* N+1 requests when an empty page N+1 ends the fetch and N requests when page
\* N omits the next link.
C4_Pagination ==
    /\ \A i \in 1..Len(calls) : calls[i] = i
    /\ fe_pc = "returned" =>
          /\ result = Some(ConcatPages(NServed))
          /\ Served(FirstStop) => Len(calls) = NServed
          /\ ~ Served(FirstStop) => Len(calls) = NServed + 1
          /\ failed = 0 => requests = Len(calls)

C4_Witness ==
    /\ fe_pc = "returned"
    /\ NServed = 2
    /\ Len(calls) = 3
    /\ requests = 3
    /\ Len(result[1]) = 4

\* a failure the specification classes as transient: 429, 5xx, network error
Transient(o) ==
    \/ o.kind = "network"
    \/ o.kind = "status" /\ (o.status = 429 \/ o.status \in 500..599)

\* C5: if the transport fails transiently on the first two attempts and
\* succeeds on the third, get() returns the successful response after exactly 3
\* invocations; if every attempt fails transiently, get() fails after exactly 3
\* invocations and never makes a fourth.
C5_RetryBound ==
    /\ Len(attempts) <= 3
    /\ (/\ Len(attempts) = 3
        /\ Transient(attempts[1]) /\ Transient(attempts[2])
        /\ attempts[3].kind = "ok")
          => /\ fe_pc \in {"got", "returned"}
             /\ response # None
             /\ response[1].events = PageEvents(page)
    /\ (\A k \in 1..Len(attempts) : Transient(attempts[k]))
          => IF Len(attempts) < 3
             THEN fe_pc \in {"start", "get"} /\ raised = None
             ELSE fe_pc = "raised" /\ raised # None

C5_Witness ==
    /\ fe_pc = "got"
    /\ attempts = <<[kind |-> "status", status |-> 429],
                    [kind |-> "network", status |-> 0],
                    [kind |-> "ok", status |-> 200]>>

\* a permanent failure: an HTTP error status in 4xx other than 429
Permanent(o) == o.kind = "status" /\ o.status \in 400..499 /\ o.status # 429

\* C6: a request that fails with a non-transient HTTP error status is raised to
\* the caller after exactly one attempt, without retry.
C6_NoRetryOnPermanent ==
    \A k \in 1..Len(attempts) :
        Permanent(attempts[k]) => (k = 1 /\ Len(attempts) = 1 /\ fe_pc = "raised")

\* C7: when all attempts of a get() fail, the error raised is the error of the
\* last attempt itself (same kind, same status), not a wrapper.
C7_LastErrorReraised ==
    fe_pc = "raised" =>
        LET last == attempts[Len(attempts)]
        IN  /\ raised # None
            /\ last.kind = "status" =>
                  raised[1] = [kind |-> "HTTPStatusError", status |-> last.status]
            /\ last.kind = "network" => raised[1].kind = "RequestError"
            /\ last.kind = "notjson" => raised[1].kind = "ValueError"
            /\ last.kind # "ok"

C7_Witness ==
    /\ fe_pc = "raised"
    /\ Len(attempts) = 3
    /\ attempts[2] = [kind |-> "status", status |-> 429]
    /\ attempts[3] = [kind |-> "status", status |-> 503]
    /\ raised = Some([kind |-> "HTTPStatusError", status |-> 503])

\* C8: if the request for page k fails, get_events raises that error and returns
\* none of the events collected from pages 1..k-1.
C8_NoPartialResult ==
    fe_pc = "raised" => (result = None /\ raised # None)

C8_Witness ==
    /\ fe_pc = "raised"
    /\ page = 3
    /\ Len(all_events) = 4
    /\ result = None

----------------------------------------------------------------------------
(* Claims about the latency store *)

\* T in the literal format YYYY-MM-DDTHH:MM:SSZ
Formatted(T) == [date |-> T.day, time |-> T.hour]

\* C9: after save_latency(v, T) on a store with no other row of T's date,
\* get_max_latency_for_date(date(T)) returns (T formatted, v); after
\* delete_latency_for_date(d), get_max_latency_for_date(d) returns None;
\* delete_latency_for_date on a date without rows returns 0, so repeating a
\* delete is harmless.
C9_RoundTrip ==
    /\ (/\ last_op.op = "max" /\ prev_op.op = "save"
        /\ prev_op.date = last_op.date /\ prev_op.before = 0)
          => last_op.ret = Some(<<Formatted(prev_op.T[1]), prev_op.latency_ms>>)
    /\ (/\ last_op.op = "max" /\ prev_op.op = "delete"
        /\ prev_op.date = last_op.date)
          => last_op.ret = None
    /\ (last_op.op = "delete" /\ last_op.before = 0) => last_op.ret = Some(0)
    /\ (/\ last_op.op = "delete" /\ prev_op.op = "delete"
        /\ prev_op.date = last_op.date)
          => last_op.ret = Some(0)

C9_Witness ==
    /\ last_op.op = "max" /\ prev_op.op = "save"
    /\ prev_op.date = last_op.date /\ prev_op.before = 0
    /\ prev_op.T[1].micro = 5
    /\ prev_op.latency_ms = 150
    /\ Len(rows) = 2
    /\ last_op.ret # None

\* the positions of tbl whose row is not of date d
OtherDates(tbl, d) == {i \in 1..Len(tbl) : tbl[i].timestamp.date # d}

\* the j-th smallest member of a set of positions
NthOf(S, j) == CHOOSE i \in S : Cardinality({m \in S : m <= i}) = j

\* C10: delete_latency_for_date(d) removes exactly the rows whose date portion
\* is d and returns their number (duplicates counted one by one); the rows of
\* every other date, and the max query results for those dates, are unchanged.
C10_DeleteFrame ==
    [][last_op'.op = "delete" =>
         LET d == last_op'.date
             keep == OtherDates(rows, d)
         IN  /\ Len(rows') = Cardinality(keep)
             /\ \A j \in 1..Len(rows') : rows'[j] = rows[NthOf(keep, j)]
             /\ last_op'.ret = Some(Len(rows) - Cardinality(keep))
             /\ \A d2 \in Days \ {d} :
                   MaxCandidates(rows', d2) = MaxCandidates(rows, d2)]_vars

C10_Witness ==
    /\ last_op.op = "delete"
    /\ last_op.ret = Some(2)
    /\ last_op.before = 2
    /\ Len(rows) = 1

\* C11: get_max_latency_for_date(d) returns None iff no stored row has date d;
\* otherwise it returns a stored row of date d whose latency_ms is greater than
\* or equal to that of every stored row of date d, whatever the insertion
\* order and the rows of other dates.
C11_MaxOfDate ==
    last_op.op = "max" =>
        LET d == last_op.date
            S == {i \in 1..Len(rows) : rows[i].timestamp.date = d}
        IN  /\ (last_op.ret = None) <=> (S = {})
            /\ S # {} =>
                  \E i \in S :
                     /\ last_op.ret = Some(<<rows[i].timestamp, rows[i].latency_ms>>)
                     /\ \A m \in S : rows[i].latency_ms >= rows[m].latency_ms

C11_Witness ==
    /\ last_op.op = "max"
    /\ last_op.date = 14
    /\ Len(rows) = 3
    /\ rows[1].timestamp.date = 14 /\ rows[1].latency_ms = 150
    /\ rows[2].timestamp.date = 14 /\ rows[2].latency_ms = 100
    /\ rows[3].timestamp.date = 15 /\ rows[3].latency_ms = 150
    /\ last_op.ret = Some(<<rows[1].timestamp, 150>>)

BothSchemaObjects == {"latency", "idx_latency_timestamp"}

\* C12: constructing a LatencyChecker on a store that already has the table
\* and the index raises no error and leaves every existing row unchanged, so
\* initialising at each process start any number of times equals doing it once.
C12_InitIdempotent ==
    [][last_op'.op = "init" =>
         /\ ~ last_op'.raised
         /\ schema' = BothSchemaObjects
         /\ schema = BothSchemaObjects => rows' = rows]_vars

C12_Witness ==
    /\ last_op.op = "init"
    /\ prev_op.op = "save"
    /\ Len(rows) = 2
    /\ ~ last_op.raised

\* C18: if the latency measurement of a probe fails, measure_and_save raises
\* and inserts no row, leaving the store as it was; a successful probe inserts
\* exactly one row.
C18_ProbeFailureSavesNothing ==
    [][last_op'.op = "probe" =>
         IF last_op'.ret = None
         THEN last_op'.raised /\ rows' = rows
         ELSE /\ ~ last_op'.raised
              /\ Len(rows') = Len(rows) + 1
              /\ SubSeq(rows', 1, Len(rows)) = rows
              /\ rows'[Len(rows')] = [timestamp |-> Formatted(last_op'.T[1]),
                                      latency_ms |-> last_op'.ret[1]]]_vars

C18_Witness ==
    /\ last_op.op = "probe"
    /\ last_op.raised
    /\ prev_op.op = "probe"
    /\ ~ prev_op.raised
    /\ Len(rows) = 1

----------------------------------------------------------------------------
(* Claims about the report assembly *)

\* the label the table gives a type, the type itself when it is not listed
LabelOf(t) ==
    CASE t = "lead_added" -> "Novaya sdelka"
      [] t = "task_added" -> "Novaya zadacha"
      [] t = "incoming_chat_message" -> "Vkhodyashchee soobshchenie"
      [] OTHER -> t

\* C13: for a non-empty top_events list and any peak, prepare_report_data
\* returns one row per entry, in the same order, of the form [date, label,
\* count, peak_latency, peak_time]; the peak fields are filled only in the
\* first row and only when a peak exists, and are "" in every other row.
C13_OneRowPerEntry ==
    (rp_pc = "done" /\ rp_top_events # <<>>) =>
        /\ Len(report_rows) = Len(rp_top_events)
        /\ \A i \in 1..Len(report_rows) :
              /\ Len(report_rows[i]) = 5
              /\ report_rows[i][1] = <<"dd.mm.yyyy", report_date>>
              /\ report_rows[i][2] = LabelOf(rp_top_events[i][1])
              /\ report_rows[i][3] = rp_top_events[i][2]
              /\ IF i = 1 /\ max_latency # None
                 THEN /\ report_rows[i][4] = Cell(max_latency[1][2])
                      /\ report_rows[i][5] = Cell(<<"HH:MM", max_latency[1][1].time>>)
                 ELSE /\ report_rows[i][4] = Blank
                      /\ report_rows[i][5] = Blank

C13_Witness ==
    /\ rp_pc = "done"
    /\ Len(rp_top_events) = 3
    /\ max_latency = Some(<<[date |-> 14, time |-> 11], 0>>)
    /\ report_rows[1][4] = Cell(0)
    /\ report_rows[2][4] = Blank
    /\ report_rows[3][2] = "unknown"

\* C14: for an empty top_events list prepare_report_data returns exactly one
\* placeholder row with the "no events" label and count 0, whose peak fields
\* carry the peak when one exists and are "" when there is none.
C14_PlaceholderRow ==
    (rp_pc = "done" /\ rp_top_events = <<>>) =>
        /\ Len(report_rows) = 1
        /\ Len(report_rows[1]) = 5
        /\ report_rows[1][1] = <<"dd.mm.yyyy", report_date>>
        /\ report_rows[1][2] = NO_EVENTS_LABEL
        /\ report_rows[1][3] = 0
        /\ IF max_latency # None
           THEN /\ report_rows[1][4] = Cell(max_latency[1][2])
                /\ report_rows[1][5] = Cell(<<"HH:MM", max_latency[1][1].time>>)
           ELSE /\ report_rows[1][4] = Blank
                /\ report_rows[1][5] = Blank

C14_Witness ==
    /\ rp_pc = "done"
    /\ rp_top_events = <<>>
    /\ max_latency = Some(<<[date |-> 15, time |-> 10], 150>>)
    /\ report_rows = << <<<<"dd.mm.yyyy", 15>>, NO_EVENTS_LABEL, 0,
                          Cell(150), Cell(<<"HH:MM", 10>>)>> >>

----------------------------------------------------------------------------
(* Claims about the worksheet initialisation *)

\* C19: for every interleaving of threads calling _get_worksheet on one
\* SheetsWriter, the authorisation and the opening of the spreadsheet each
\* complete at most once, and exactly once as soon as any caller has been
\* handed a worksheet; every caller is handed the same worksheet object, and
\* later calls return the cached one without initialising again.
C19_InitialisedOnce ==
    /\ authorized <= 1
    /\ opened <= 1
    /\ \A t \in Threads :
          got[t] # None =>
              /\ authorized = 1
              /\ opened = 1
              /\ got[t] = worksheet
              /\ \A u \in Threads : got[u] # None => got[u] = got[t]

\* thread 1 has finished a first and a later call; thread 2, which passed the
\* outer test before the worksheet was set, now holds the lock
C19_Witness ==
    /\ sh_calls[1] = 2 /\ sh_pc[1] = "idle" /\ got[1] = Some(1)
    /\ sh_calls[2] = 1 /\ sh_pc[2] = "check2" /\ init_lock = 2
    /\ worksheet = Some(1)
    /\ init_failed = 0
    /\ authorized = 1
    /\ opened = 1

----------------------------------------------------------------------------
(* Claims about the scheduled entry points *)

\* C15: a daily run that ends in failure, whichever step failed, has performed
\* no write to the spreadsheet during that run: neither a header-row update
\* nor any report row.
C15_NoWriteOnFailure ==
    exit_status = Some(1) => run_writes = {}

\* C16: if the daily run for a report date failed before its rows were
\* appended, the next scheduled invocation processes that date again.
C16_FailedDateReprocessed ==
    (d_pc # "idle" /\ prev_run # None /\ ~ prev_run[1].appended) =>
        d_report_date = prev_run[1].date

\* the steps of main up to and including its n-th
StepsUpTo(n) == SubSeq(MainSteps, 1, n)

\* C17: an exception raised in a step of the daily main (or in the probe's
\* main) ends the process with exit status 1 and the steps after the failing
\* one are not executed; the exit status is set by the entry point only, so a
\* run without a failing step executes every step in order and ends with 0.
C17_FailureExitsOne ==
    /\ (d_failed # None) <=> (exit_status = Some(1))
    /\ d_failed # None =>
          /\ d_pc = "exited"
          /\ d_steps = StepsUpTo(StepIndex(d_failed[1]))
    /\ d_failed = None => d_steps = StepsUpTo(Len(d_steps))
    /\ exit_status = Some(0) => d_steps = MainSteps /\ d_pc = "done"
    /\ (d_pc \notin {"idle", "done", "exited"}) => exit_status = None
    /\ probe_raised <=> (probe_exit = Some(1))

C17_Witness ==
    /\ exit_status = Some(1)
    /\ d_failed = Some("append_rows")
    /\ Len(d_steps) = 7
    /\ probe_exit = Some(1)
    /\ run_no = 2
    /\ prev_run # None
    /\ prev_run[1].appended

TenantUserIds ==
    UNION { {tenant_users[k][j] : j \in 1..Len(tenant_users[k])} :
            k \in 1..Len(tenant_users) }

\* C20: the user-id list a daily run filters with holds the id of every user
\* of the tenant, whatever page of GET /users serves it, so no event created
\* by a tenant user is among the automated events of the run.
C20_AllTenantUsers ==
    (d_steps # <<>> /\ d_failed # Some("get_users")) =>
        /\ TenantUserIds \subseteq {d_user_ids[j] : j \in 1..Len(d_user_ids)}
        /\ \A i \in 1..Len(d_events) :
              (d_events[i].created_by # None
                  /\ d_events[i].created_by[1] \in TenantUserIds) =>
                 \A k \in 1..Len(filter_automated_events(d_events, d_user_ids)) :
                    filter_automated_events(d_events, d_user_ids)[k].id
                        # d_events[i].id

\* the last n rows of the worksheet
LastRows(n) == SubSeq(sheet_rows, Len(sheet_rows) - n + 1, Len(sheet_rows))

C23_NoErrorSwallowed ==
    (ft_pc = "done" /\ ft_failed) => (ft_raised /\ ft_out = None)

\* the vendor serves, at some page, an empty page or a page without next link
ServerStops ==
    \/ tail = "empty"
    \/ \E k \in 1..Len(srv) : srv[k].n = 0 \/ ~ srv[k].next

Terminated == fe_pc \in {"returned", "raised"}

\* C24: get_events terminates (returns or raises) whenever the server serves,
\* at some page, an empty page or a page without a next link; against a server
\* that serves non-empty pages with a next link without end it never returns:
\* every page it reads makes it request the next one, and only a failed
\* request ends it.
C24_Termination ==
    /\ (fe_pc = "start" /\ ServerStops) ~> Terminated
    /\ [](~ ServerStops =>
            /\ fe_pc # "returned"
            /\ fe_pc = "got" =>
                  (response[1].events # <<>> /\ has_next(response[1], page)))

C24_Witness ==
    /\ ~ ServerStops
    /\ Len(srv) = 1
    /\ page = 3
    /\ fe_pc = "got"
    /\ Len(all_events) = 4
    /\ failed = 0

\* C25: within one get() call the wait inserted after the k-th failed attempt
\* is 2 time units for k = 1, doubles with each further failed attempt, and
\* never exceeds 10 time units.
C25_BackoffDoubles ==
    \A k \in 1..Len(waits) :
        /\ waits[k] <= 10
        /\ k = 1 => waits[k] = 2
        /\ k > 1 => waits[k] = (IF 2 * waits[k - 1] <= 10
                                THEN 2 * waits[k - 1] ELSE 10)

\* the get() calls of this fetch that have returned a response
ReturnedGets ==
    IF fe_pc \in {"got", "returned"} THEN Len(calls)
    ELSE IF calls = <<>> THEN 0 ELSE Len(calls) - 1

\* C30: each page request of get_events has its own retry budget of 3
\* attempts: a failure on page k is retried without requesting pages 1..k-1
\* again, the attempt counter restarts at 1 for every page, a fetch that reads
\* pages 1..n issues at most 3*n requests, and the requests are made one at a
\* time: each has ended, in a response or an error, before the next is sent.
C30_PerPageRetryBudget ==
    /\ \A i \in 1..Len(calls) : calls[i] = i
    /\ fe_pc = "get" =>
          /\ attempt_number = Len(attempts) + 1
          /\ attempt_number <= 3
    /\ Len(attempts) <= 3
    /\ requests <= 3 * Len(calls)
    /\ fe_pc = "returned" => (page = Len(calls) /\ requests <= 3 * page)
    /\ requests = failed + ReturnedGets

C30_Witness ==
    /\ fe_pc = "returned"
    /\ page = 2
    /\ calls = <<1, 2>>
    /\ requests = 6
    /\ failed = 4
    /\ Len(attempts) = 3

----------------------------------------------------------------------------
(* Claims about ties and about the whole processing pass *)

\* the position in the counting pass at which type t is first seen
FirstSeen(t) ==
    CHOOSE i \in 1..Len(automated_events) :
        /\ TypeOf(automated_events[i]) = t
        /\ \A j \in 1..(i - 1) : TypeOf(automated_events[j]) # t

InTop(t) == \E j \in 1..Len(top_events) : top_events[j][1] = t

\* C26: among event types with equal counts, get_top_events orders them, and
\* decides which of them survive the truncation to the limit, by the order in
\* which the types were first seen in the counting pass over the automated
\* events.
C26_TieOrder ==
    proc_pc = "ranked" =>
        /\ \A j, k \in 1..Len(top_events) :
              (j < k /\ top_events[j][2] = top_events[k][2]) =>
                  FirstSeen(top_events[j][1]) < FirstSeen(top_events[k][1])
        /\ \A k \in 1..Len(type_counts) :
              ~ InTop(type_counts[k][1]) =>
                  \A j \in 1..Len(top_events) :
                      top_events[j][2] = type_counts[k][2] =>
                          FirstSeen(top_events[j][1]) < FirstSeen(type_counts[k][1])

C26_Witness ==
    /\ proc_pc = "ranked"
    /\ Len(automated_events) = 3
    /\ TypeOf(automated_events[1]) = "task_added"
    /\ TypeOf(automated_events[2]) = "unknown"
    /\ TypeOf(automated_events[3]) = "lead_added"
    /\ top_events = << <<"task_added", 1>>, <<"unknown", 1>> >>

TypeLabels == {"unknown", "lead_added", "task_added"}

\* the number of automated events of E counted under label t
AutoCount(t) ==
    Cardinality({i \in KeptIdx : TypeOf(events_in[i]) = t})

Returned(t) == \E j \in 1..Len(processed) : processed[j][1] = t

----------------------------------------------------------------------------
(* Claims about the daily run and the latency samples *)

\* a statement of main has just been executed
MainStepTaken == Len(d_steps') = Len(d_steps) + 1

LastStep(steps) == steps[Len(steps)]

\* C28: in a daily run delete_latency_for_date runs only after append_rows has
\* returned without raising, no statement runs after one that raised, and the
\* only statement of main that changes the latency rows is that delete when it
\* succeeds: a run that failed earlier leaves every sample in the store
C28_DeleteOnlyAfterAppend ==
    [][MainStepTaken =>
          /\ d_failed = None
          /\ LastStep(d_steps') = "delete_latency" =>
                \E i \in 1..Len(d_steps) : d_steps[i] = "append_rows"
          /\ rows' # rows =>
                /\ LastStep(d_steps') = "delete_latency"
                /\ d_failed' = None]_vars

\* a run that failed at append_rows: the samples its peak came from are still stored
C28_Witness ==
    /\ d_failed = Some("append_rows")
    /\ d_pc = "exited"
    /\ d_max_latency # None
    /\ d_late = 0
    /\ Len(SelectOfDate(rows, d_report_date)) = d_selected
    /\ d_selected > 0

\* C29: when delete_latency_for_date succeeds, the rows of the report date in
\* the table are the rows the peak was computed over followed by the samples
\* probes saved for that date since the SELECT; the reported peak is a maximum
\* of the former only, and the DELETE removes all of them, so a late sample is
\* lost unreported; with no late sample the deleted rows are the selected ones
C29_LateSampleDeleted ==
    [][(MainStepTaken /\ LastStep(d_steps') = "delete_latency" /\ d_failed' = None) =>
          LET matched == SelectOfDate(rows, d_report_date)
              considered == SubSeq(matched, 1, d_selected)
          IN  /\ Len(matched) = d_selected + d_late
              /\ d_max_latency \in
                    (IF considered = <<>>
                     THEN {None}
                     ELSE {Some(c) : c \in MaxCandidates(considered, d_report_date)})
              /\ SelectOfDate(rows', d_report_date) = <<>>
              /\ Len(rows) - Len(rows') = Len(matched)
              /\ d_late = 0 => matched = considered]_vars

\* the run reported a peak of 100 ms from one row, a probe then saved a sample
\* of the report date, and the delete removed both
C29_Witness ==
    /\ d_pc = "done"
    /\ LastStep(d_steps) = "delete_latency"
    /\ d_selected = 1
    /\ d_late = 1
    /\ d_max_latency # None
    /\ d_max_latency[1][2] = 100
    /\ SelectOfDate(rows, d_report_date) = <<>>

====
